---- MODULE Spec2Model ----
(***************************************************************************)
(* dotenv-parser-serializer: the grammar table and its rule interpreter    *)
(* (src/src/parse.js: TOKENS, extract, lex, parse, parseString) and the     *)
(* serializer (src/src/serialize.js: serialize, serializeString).          *)
(*                                                                         *)
(* A JavaScript string is a sequence of characters; a character is a TLA+  *)
(* string.  Offsets are zero-based as in the source, so the character at   *)
(* offset i of s is s[i + 1].  The characters are those of well-formed     *)
(* text: letters, digits, punctuation, whitespace and control characters.  *)
(***************************************************************************)
EXTENDS Naturals, Sequences, FiniteSets, TLC

VARIABLES
  source,              \* parse: the text being parsed
  extractDescriptions, \* parse: the option
  index,               \* lex: state.index
  lastIndex,           \* lex: lastIndex of the running iteration
  map,                 \* parse: the mapping under construction
  lastDescription,     \* parse: the description buffer
  pc,                  \* where the running call is
  error,               \* what the running parse threw, if it threw
  doc,                 \* serialize: its argument
  text,                \* serialize: its result
  yielded,             \* history: the tokens lex has yielded to the running parse
  calls                \* history: the calls that have ended, in order

vars == <<source, extractDescriptions, index, lastIndex, map, lastDescription,
          pc, error, doc, text, yielded, calls>>

----------------------------------------------------------------------------
(* Characters *)

NL  == "\n"
TAB == "\t"
CR  == "\r"
FF  == "\f"
SP  == " "
DQ  == "\""
SQ  == "'"
BSL == "\\"
\* two control characters that TLA+ has no escape for
BS  == "<U+0008>"
SOH == "<U+0001>"

Upper == {"A", "B", "C", "D", "E", "F", "G", "H", "I", "J", "K", "L", "M",
          "N", "O", "P", "Q", "R", "S", "T", "U", "V", "W", "X", "Y", "Z"}
Lower == {"a", "b", "c", "d", "e", "f", "g", "h", "i", "j", "k", "l", "m",
          "n", "o", "p", "q", "r", "s", "t", "u", "v", "w", "x", "y", "z"}
Digit == {"0", "1", "2", "3", "4", "5", "6", "7", "8", "9"}

\* what /\s/ and String.prototype.trim take for whitespace, among the characters above
WhitespaceChars == {SP, TAB, NL, CR, FF}

\* the characters below U+0020
ControlChars == {TAB, NL, CR, FF, BS, SOH}

\* RegExp.prototype.test(char) for the character classes of TOKENS; char is the
\* result of charAt, "" past the end of the source, which no class accepts
Test(re, char) ==
  /\ char # ""
  /\ CASE re = "\\s"           -> char \in WhitespaceChars
       [] re = "[^\\n]"        -> char # NL
       [] re = "[a-zA-Z_]"     -> char \in Upper \cup Lower \cup {"_"}
       [] re = "[a-zA-Z0-9_]"  -> char \in Upper \cup Lower \cup Digit \cup {"_"}
       [] re = "[^\\n\"']"     -> char \notin {NL, DQ, SQ}
       [] re = "[^\\\\\\n]"    -> char \notin {BSL, NL}
       [] re = "[^\\\\\"]"     -> char \notin {BSL, DQ}
       [] re = "[^']"          -> char # SQ
       [] re = "[ntbfr\"\\\\]" -> char \in {"n", "t", "b", "f", "r", DQ, BSL}
       [] OTHER                -> FALSE

\* source.charAt(i)
charAt(s, i) == IF i < Len(s) THEN s[i + 1] ELSE ""

\* source.substr(i, n)
substr(s, i, n) ==
  IF i >= Len(s) THEN <<>>
  ELSE SubSeq(s, i + 1, IF i + n <= Len(s) THEN i + n ELSE Len(s))

----------------------------------------------------------------------------
(* The grammar table *)

\* the three shapes of a token part
StringPart(s) ==
  [part |-> "string", s |-> s, re |-> "", type |-> "", optional |-> FALSE, flatten |-> FALSE]
RegExpPart(re) ==
  [part |-> "RegExp", s |-> <<>>, re |-> re, type |-> "", optional |-> FALSE, flatten |-> FALSE]
ObjectPart(type, optional, flatten) ==
  [part |-> "object", s |-> <<>>, re |-> "", type |-> type, optional |-> optional, flatten |-> flatten]

\* a rule: a sequence of parts, an alternation ($or), or a sequence under a replacer
\* (the rule's parts are then its "token" property)
SeqRule(parts)      == [or |-> <<>>, token |-> parts, replacer |-> FALSE]
OrRule(names)       == [or |-> names, token |-> <<>>, replacer |-> FALSE]
ReplacerRule(parts) == [or |-> <<>>, token |-> parts, replacer |-> TRUE]

TOKENS(name) ==
  CASE name = "Whitespace" ->
         SeqRule(<<RegExpPart("\\s"), ObjectPart("Whitespace", TRUE, TRUE)>>)
    [] name = "Comment" ->
         SeqRule(<<StringPart(<<"#">>), ObjectPart("CommentChars", TRUE, FALSE)>>)
    [] name = "CommentChars" ->
         SeqRule(<<ObjectPart("CommentChar", FALSE, TRUE), ObjectPart("CommentChars", TRUE, TRUE)>>)
    [] name = "CommentChar" ->
         SeqRule(<<RegExpPart("[^\\n]")>>)
    [] name = "keyedEntry" ->
         SeqRule(<<ObjectPart("Key", FALSE, FALSE), StringPart(<<"=">>), ObjectPart("String", TRUE, FALSE)>>)
    [] name = "Key" ->
         SeqRule(<<ObjectPart("AlphaUChar", FALSE, TRUE), ObjectPart("AlphaNumUChars", TRUE, TRUE)>>)
    [] name = "AlphaNumUChars" ->
         SeqRule(<<ObjectPart("AlphaNumUChar", FALSE, TRUE), ObjectPart("AlphaNumUChars", TRUE, TRUE)>>)
    [] name = "AlphaUChar" ->
         SeqRule(<<RegExpPart("[a-zA-Z_]")>>)
    [] name = "AlphaNumUChar" ->
         SeqRule(<<RegExpPart("[a-zA-Z0-9_]")>>)
    [] name = "String" ->
         OrRule(<<"UnquotedString", "EmptyString", "QuotedString", "SingleQuotedString">>)
    [] name = "UnquotedString" ->
         SeqRule(<<ObjectPart("SafeChar", FALSE, TRUE), ObjectPart("UnquotedStringChars", TRUE, TRUE)>>)
    [] name = "SafeChar" ->
         SeqRule(<<RegExpPart("[^\\n\"']")>>)
    [] name = "UnquotedStringChars" ->
         SeqRule(<<RegExpPart("[^\\\\\\n]"), ObjectPart("UnquotedStringChars", TRUE, TRUE)>>)
    [] name = "EmptyString" ->
         SeqRule(<<StringPart(<<DQ, DQ>>)>>)
    [] name = "QuotedString" ->
         SeqRule(<<StringPart(<<DQ>>), ObjectPart("QuotedStringChars", TRUE, FALSE), StringPart(<<DQ>>)>>)
    [] name = "QuotedStringChars" ->
         SeqRule(<<ObjectPart("QuotedStringChar", FALSE, TRUE), ObjectPart("QuotedStringChars", TRUE, TRUE)>>)
    [] name = "QuotedStringChar" ->
         OrRule(<<"UnescapedQuotedStringChar", "EscapedChars">>)
    [] name = "SingleQuotedString" ->
         SeqRule(<<StringPart(<<SQ>>), ObjectPart("SingleQuotedStringChars", TRUE, FALSE), StringPart(<<SQ>>)>>)
    [] name = "SingleQuotedStringChars" ->
         SeqRule(<<ObjectPart("SingleQuotedStringChar", FALSE, TRUE), ObjectPart("SingleQuotedStringChars", TRUE, TRUE)>>)
    [] name = "SingleQuotedStringChar" ->
         OrRule(<<"UnescapedSingleQuotedStringChar">>)
    [] name = "UnescapedQuotedStringChar" ->
         SeqRule(<<RegExpPart("[^\\\\\"]")>>)
    [] name = "UnescapedSingleQuotedStringChar" ->
         SeqRule(<<RegExpPart("[^']")>>)
    [] name = "EscapedChars" ->
         ReplacerRule(<<StringPart(<<BSL>>), RegExpPart("[ntbfr\"\\\\]")>>)

\* top level tokens
MAIN_TOKENS == <<"Whitespace", "Comment", "keyedEntry">>

\* getTokenName(token): the name under which TOKENS holds the value; a rule with a
\* "token" property is looked up by that property, which the table does not hold
getTokenName(name) == IF TOKENS(name).replacer THEN "null" ELSE name

----------------------------------------------------------------------------
(* The rule interpreter *)

\* an element of a token's value: a string, or the token of a sub-rule
StringElement(s) == [isString |-> TRUE, str |-> s, value |-> <<>>, token |-> ""]
TokenElement(val) == [isString |-> FALSE, str |-> <<>>, value |-> val.value, token |-> val.token]

\* extract's results: null, or { value, token } with the state.index it leaves
NoMatch == [matched |-> FALSE, index |-> 0, value |-> <<>>, token |-> ""]
Match(i, value, token) == [matched |-> TRUE, index |-> i, value |-> value, token |-> token]

\* the loop "concat consecutive strings" of extract
RECURSIVE sanitize(_, _, _)
sanitize(extractedValue, i, sanitizedExtractedValue) ==
  IF i > Len(extractedValue) THEN sanitizedExtractedValue
  ELSE LET val == extractedValue[i]
           n == Len(sanitizedExtractedValue)
       IN  IF val.isString /\ n > 0 /\ sanitizedExtractedValue[n].isString
           THEN sanitize(extractedValue, i + 1,
                  [sanitizedExtractedValue EXCEPT ![n] =
                     StringElement(sanitizedExtractedValue[n].str \o val.str)])
           ELSE sanitize(extractedValue, i + 1, Append(sanitizedExtractedValue, val))

\* a replacer whose switch lacks the case of backslash-n
replacerWithoutNewline(val) ==
  LET v0 == val[1].str
      to == CASE v0 = <<BSL, BSL>> -> <<BSL>>
              [] v0 = <<BSL, "t">> -> <<TAB>>
              [] v0 = <<BSL, "b">> -> <<BS>>
              [] v0 = <<BSL, "f">> -> <<FF>>
              [] v0 = <<BSL, "r">> -> <<CR>>
              [] v0 = <<BSL, DQ>>  -> <<DQ>>
              [] OTHER             -> v0
  IN  [val EXCEPT ![1] = StringElement(to)]

\* TOKENS.EscapedChars.replacer: the switch on val[0]
replacer(val) ==
  LET v0 == val[1].str
      to == CASE v0 = <<BSL, BSL>> -> <<BSL>>
              [] v0 = <<BSL, "n">> -> <<NL>>
              [] v0 = <<BSL, "t">> -> <<TAB>>
              [] v0 = <<BSL, "b">> -> <<BS>>
              [] v0 = <<BSL, "f">> -> <<FF>>
              [] v0 = <<BSL, "r">> -> <<CR>>
              [] v0 = <<BSL, DQ>>  -> <<DQ>>
              [] OTHER             -> v0
  IN  [val EXCEPT ![1] = StringElement(to)]

RECURSIVE extract(_, _, _)
RECURSIVE extractOr(_, _, _, _)
RECURSIVE extractParts(_, _, _, _, _)

\* extract, the loop over token.$or
extractOr(names, k, src, i) ==
  IF k > Len(names) THEN NoMatch
  ELSE LET val == extract(names[k], src, i)
       IN  IF val.matched THEN val ELSE extractOr(names, k + 1, src, i)

\* extract, the loop over the parts of a token from part k on: the result is
\* NoMatch (return null) or the currentIndex and extractedValue the loop ends with
extractParts(parts, k, src, currentIndex, extractedValue) ==
  IF k > Len(parts) THEN Match(currentIndex, extractedValue, "")
  ELSE LET tokenPart == parts[k] IN
    CASE tokenPart.part = "string" ->
           LET currentToken == substr(src, currentIndex, Len(tokenPart.s))
           IN  IF tokenPart.s # currentToken THEN NoMatch
               ELSE extractParts(parts, k + 1, src, currentIndex + Len(currentToken),
                                 Append(extractedValue, StringElement(currentToken)))
      [] tokenPart.part = "RegExp" ->
           LET char == charAt(src, currentIndex)
           IN  IF ~Test(tokenPart.re, char) THEN NoMatch
               ELSE extractParts(parts, k + 1, src, currentIndex + 1,
                                 Append(extractedValue, StringElement(<<char>>)))
      [] tokenPart.part = "object" ->
           LET val == extract(tokenPart.type, src, currentIndex)
           IN  IF ~val.matched
               THEN IF ~tokenPart.optional THEN NoMatch
                    \* break: the parts after a failed optional part are not applied
                    ELSE Match(currentIndex, extractedValue, "")
               ELSE extractParts(parts, k + 1, src, val.index,
                                 IF tokenPart.flatten THEN extractedValue \o val.value
                                 ELSE Append(extractedValue, TokenElement(val)))

\* extract(TOKENS[name], { source: src, index: i })
extract(name, src, i) ==
  LET token == TOKENS(name) IN
  IF token.or # <<>> THEN extractOr(token.or, 1, src, i)
  ELSE LET r == extractParts(token.token, 1, src, i, <<>>)
           sanitizedExtractedValue == sanitize(r.value, 1, <<>>)
       IN  IF ~r.matched THEN NoMatch
           ELSE Match(r.index,
                      IF token.replacer THEN replacer(sanitizedExtractedValue)
                      ELSE sanitizedExtractedValue,
                      getTokenName(name))

----------------------------------------------------------------------------
(* Documents *)

\* a description: null, or a string
Null == [isNull |-> TRUE, str |-> <<>>]
Description(s) == [isNull |-> FALSE, str |-> s]

\* an entry of a Document: a plain string, or a { description, value } object
StringEntry(value) == [isObject |-> FALSE, description |-> Null, value |-> value]
ObjectEntry(description, value) == [isObject |-> TRUE, description |-> description, value |-> value]

\* a Document is a JavaScript object with identifier-like keys: its own properties
\* in insertion order, as a sequence of <<key, entry>> without repeated keys
Keys(obj) == {obj[i][1] : i \in 1..Len(obj)}
Get(obj, key) == obj[CHOOSE i \in 1..Len(obj) : obj[i][1] = key][2]

\* the property name that Object.prototype defines as an accessor
ProtoKey == <<"_", "_", "p", "r", "o", "t", "o", "_", "_">>

\* map[key] = entry, map created as {}: an existing property keeps its place and
\* takes the new entry, a new one is added last. Assigning __proto__ calls the
\* inherited setter, which sets or keeps the prototype and adds no own property, so
\* Object.entries and serialize never see that key.
MapSet(obj, key, entry) ==
  IF key = ProtoKey THEN obj
  ELSE IF key \in Keys(obj)
  THEN [i \in 1..Len(obj) |-> IF obj[i][1] = key THEN <<key, entry>> ELSE obj[i]]
  ELSE Append(obj, <<key, entry>>)

----------------------------------------------------------------------------
(* parse *)

\* String.prototype.trim
RECURSIVE trimStart(_)
trimStart(s) ==
  IF s # <<>> /\ Head(s) \in WhitespaceChars THEN trimStart(Tail(s)) ELSE s
RECURSIVE trimEnd(_)
trimEnd(s) ==
  IF s # <<>> /\ s[Len(s)] \in WhitespaceChars THEN trimEnd(SubSeq(s, 1, Len(s) - 1)) ELSE s
trim(s) == trimEnd(trimStart(s))

\* String.prototype.split('\n')
RECURSIVE split(_)
split(s) ==
  IF \A i \in 1..Len(s) : s[i] # NL THEN <<s>>
  ELSE LET i == CHOOSE j \in 1..Len(s) : s[j] = NL /\ \A k \in 1..(j - 1) : s[k] # NL
       IN  <<SubSeq(s, 1, i - 1)>> \o split(SubSeq(s, i + 1, Len(s)))

\* parseString(val), val the String element of a keyedEntry
parseString(val) ==
  IF val.token = "UnquotedString" THEN val.value[1].str
  ELSE IF Len(val.value) # 3 THEN <<>>
  ELSE val.value[2].value[1].str

PreviewLen == 25

NoError == [kind |-> "none", char |-> "", offset |-> 0, line |-> <<>>]
\* an error that reports the offset a key reached instead of the offset where the
\* iteration began
SyntaxErrorAfterKey(src, last, i) ==
  LET key == extract("Key", src, last)
      at == IF key.matched THEN key.index ELSE last
  IN  [kind |-> "Error", char |-> charAt(src, at), offset |-> at,
       line |-> split(substr(src, at, PreviewLen))[1]]

\* new Error(`Unexpected token ${char}, at char ${offset} (line: ${line})`)
SyntaxError(src, last, i) ==
  [kind |-> "Error", char |-> charAt(src, last), offset |-> last,
   line |-> split(substr(src, i, PreviewLen))[1]]
\* reading a property of undefined
TypeError == [kind |-> "TypeError", char |-> "", offset |-> 0, line |-> <<>>]

\* a call that has ended: parse(text, {extractDescriptions}) returned doc or threw
\* error; serialize(doc) returned text
ParseCall(src, opt, result, err) ==
  [op |-> "parse", text |-> src, extractDescriptions |-> opt, doc |-> result, error |-> err]
SerializeCall(obj, result) ==
  [op |-> "serialize", text |-> result, extractDescriptions |-> FALSE, doc |-> obj, error |-> NoError]

\* a token lex yielded, from offset to offset, and what parse wrote for it
Yielded(val, from, key, entry) ==
  [token |-> val.token, value |-> val.value, from |-> from, to |-> val.index,
   key |-> key, entry |-> entry]

\* parse, case 'Comment': the new lastDescription
commentCase(description, val) ==
  (IF description # <<>> THEN description \o <<NL>> ELSE description)
     \o trim(val.value[2].value[1].str)

\* parse, case 'keyedEntry': the key and the entry written to map
keyedEntryKey(val) == val.value[1].value[1].str
keyedEntryEntry(val, opt, description) ==
  LET v == IF Len(val.value) < 3 THEN <<>> ELSE parseString(val.value[3])
  IN  IF opt
      THEN ObjectEntry(IF description # <<>> THEN Description(description) ELSE Null, v)
      ELSE StringEntry(v)

\* a keyed entry that leaves the buffer as it is
keyedEntryKeep(description) == description

\* parse, case 'keyedEntry': lastDescription after the entry
keyedEntryReset(description) == <<>>

\* lex: the rule tried after `name` in "for (const token of MAIN_TOKENS)"
nextToken(name) ==
  IF name = MAIN_TOKENS[Len(MAIN_TOKENS)] THEN "check"
  ELSE MAIN_TOKENS[(CHOOSE k \in 1..Len(MAIN_TOKENS) : MAIN_TOKENS[k] = name) + 1]

----------------------------------------------------------------------------
(* serialize *)

\* a quoting that leaves the backslash as it is
quoteCharKeepBackslash(c) ==
  CASE c = DQ  -> <<BSL, DQ>>
    [] c = BS  -> <<BSL, "b">>
    [] c = FF  -> <<BSL, "f">>
    [] c = NL  -> <<BSL, "n">>
    [] c = CR  -> <<BSL, "r">>
    [] c = TAB -> <<BSL, "t">>
    [] c = SOH -> <<BSL, "u", "0", "0", "0", "1">>
    [] OTHER   -> <<c>>

\* JSON.stringify of one character of a string
quoteChar(c) ==
  CASE c = DQ  -> <<BSL, DQ>>
    [] c = BSL -> <<BSL, BSL>>
    [] c = BS  -> <<BSL, "b">>
    [] c = FF  -> <<BSL, "f">>
    [] c = NL  -> <<BSL, "n">>
    [] c = CR  -> <<BSL, "r">>
    [] c = TAB -> <<BSL, "t">>
    [] c = SOH -> <<BSL, "u", "0", "0", "0", "1">>
    [] OTHER   -> <<c>>

\* JSON.stringify(val), val a string
RECURSIVE quoteChars(_)
quoteChars(val) == IF val = <<>> THEN <<>> ELSE quoteChar(Head(val)) \o quoteChars(Tail(val))
JSONstringify(val) == <<DQ>> \o quoteChars(val) \o <<DQ>>

includes(val, c) == \E i \in 1..Len(val) : val[i] = c

serializeString(val) ==
  IF includes(val, NL) /\ ~includes(val, SQ) THEN <<SQ>> \o val \o <<SQ>>
  ELSE JSONstringify(val)

\* the lines "# ${line}\n" of a description
RECURSIVE descriptionLines(_)
descriptionLines(lines) ==
  IF lines = <<>> THEN <<>>
  ELSE <<"#", SP>> \o Head(lines) \o <<NL>> \o descriptionLines(Tail(lines))

\* serialize, the body of the loop: one serializedEntry
serializeEntry(key, entry) ==
  LET description == IF entry.isObject THEN entry.description ELSE Null
      value == entry.value
  IN  (IF ~description.isNull /\ description.str # <<>>
       THEN descriptionLines(split(description.str)) ELSE <<>>)
         \o key \o <<"=">> \o serializeString(value)

\* serializedDoc.join('\n')
RECURSIVE join(_)
join(serializedDoc) ==
  IF serializedDoc = <<>> THEN <<>>
  ELSE IF Len(serializedDoc) = 1 THEN serializedDoc[1]
  ELSE serializedDoc[1] \o <<NL>> \o join(Tail(serializedDoc))

serialize(obj) == join([i \in 1..Len(obj) |-> serializeEntry(obj[i][1], obj[i][2])])

----------------------------------------------------------------------------
(* The inputs *)

MaxLen == 3
MaxLines == 3
MaxBody == 3
MaxValLen == 2
MaxCalls == 3

SeqsUpTo(S, n) == UNION {[1..k -> S] : k \in 0..n}

\* every text of at most MaxLen characters over the characters the grammar tells apart
Alphabet == {"A", "n", "1", "=", "#", NL, SP, DQ, SQ, BSL}
Texts == SeqsUpTo(Alphabet, MaxLen)

\* texts of at most MaxLines lines
Lines == { <<"A", "=", "1">>, <<"A", "=", "2">>, <<"B", "=">>, <<"#", "c">>,
           <<"#", SP, "d", SP>>, <<"#", SP>> }
LineTexts == {join(ls) : ls \in SeqsUpTo(Lines, MaxLines)}

\* an entry whose value is quoted, around at most MaxBody characters
BodyAlphabet == {"a", "n", BSL, DQ, SQ}
QuotedTexts ==
  {<<"A", "=", q>> \o body \o <<q>> : q \in {DQ, SQ}, body \in SeqsUpTo(BodyAlphabet, MaxBody)}

\* every pair of the escape table, and a pair that is not of it, in both quotings
EscapeTexts ==
  {<<"A", "=", q, "x", BSL, e, "y", q>> :
     q \in {DQ, SQ}, e \in {"n", "t", "b", "f", "r", BSL, "u"}}
  \cup {<<"A", "=", DQ, "x", BSL, DQ, "y", DQ>>}

\* the examples of the documentation
Examples ==
  { <<"A", "=", "1", NL, "A", "=", "2">>,
    <<"#", SP, "l", "i", "n", "e", SP, "o", "n", "e", NL,
      "#", SP, "l", "i", "n", "e", SP, "t", "w", "o", NL, "A", "=", "x">>,
    <<"A", "=", DQ, "a", BSL, "n", "b", DQ>>,
    <<"A", "=", SQ, "a", BSL, "n", "b", SQ>>,
    <<"A", "=">>,
    <<"A", "=", DQ, DQ>>,
    <<"A", "#", "B">> }

\* longer texts: comments, blank lines and entries of two keys, one assigned twice;
\* two entries, one with an escaped quote and an escaped backslash; escape pairs
\* next to each other; the key __proto__ assigned twice
LongTexts ==
  { <<"#", "c", NL, "#", SP, "d", SP, NL, "A", "=", "1", NL, NL, "B", "=", NL,
      "#", "c", NL, "A", "=", "2">>,
    <<"A", "=", DQ, BSL, DQ, BSL, BSL, DQ, NL, "B", "=", "1">>,
    <<"A", "=", DQ, BSL, "n", BSL, BSL, "n", DQ>>,
    ProtoKey \o <<"=", "1", NL>> \o ProtoKey \o <<"=", "2">> }

Sources == Texts \cup LineTexts \cup QuotedTexts \cup EscapeTexts \cup Examples \cup LongTexts

\* the Documents handed to serialize
ValueAlphabet == {"a", DQ, SQ, BSL, NL, SOH}
Values == SeqsUpTo(ValueAlphabet, MaxValLen)
Descriptions ==
  {Null, Description(<<>>), Description(<<"d">>), Description(<<"d", NL, "e">>),
   Description(<<SP, "d">>)}
Entries ==
  {StringEntry(v) : v \in Values}
  \cup {ObjectEntry(d, v) : d \in Descriptions, v \in Values}
ShortEntries ==
  {e \in Entries : Len(e.value) < MaxValLen /\ e.description \in {Null, Description(<<"d">>)}}
SecondEntries == {StringEntry(<<"a">>), ObjectEntry(Description(<<"d", NL, "e">>), <<NL>>)}
DocKeys == {<<"A">>, <<"_", "1">>, ProtoKey}
Docs ==
  {<< <<k, e>> >> : k \in DocKeys, e \in Entries}
  \cup {<< <<(<<"A">>), e1>>, <<(<<"_", "1">>), e2>> >> : e1 \in ShortEntries, e2 \in SecondEntries}

----------------------------------------------------------------------------
(* The calls *)

\* the locals of a parse call at its start
Start(src, opt) ==
  /\ source' = src
  /\ extractDescriptions' = opt
  /\ index' = 0
  /\ lastIndex' = 0
  /\ map' = <<>>
  /\ lastDescription' = <<>>
  /\ error' = NoError
  /\ yielded' = <<>>
  /\ pc' = "while"

\* the caller starts with parse(source, {extractDescriptions}) on a text, or holds a
\* Document to serialize
Init ==
  /\ calls = <<>>
  /\ index = 0
  /\ lastIndex = 0
  /\ map = <<>>
  /\ lastDescription = <<>>
  /\ error = NoError
  /\ yielded = <<>>
  /\ text = <<>>
  /\ \/ /\ source \in Sources
        /\ extractDescriptions \in BOOLEAN
        /\ doc = <<>>
        /\ pc = "while"
     \/ /\ source = <<>>
        /\ extractDescriptions = FALSE
        /\ doc \in Docs
        /\ pc = "caller"

\* lex: while (state.index < source.length); at the end of the source the generator
\* is done and parse returns map
LexWhile ==
  /\ pc = "while"
  /\ IF index < Len(source)
     THEN /\ lastIndex' = index
          /\ pc' = MAIN_TOKENS[1]
          /\ UNCHANGED calls
     ELSE /\ pc' = "returned"
          /\ calls' = Append(calls, ParseCall(source, extractDescriptions, map, NoError))
          /\ UNCHANGED lastIndex
  /\ UNCHANGED <<source, extractDescriptions, index, map, lastDescription, error,
                 doc, text, yielded>>

\* lex: extract(TOKENS.Whitespace, state); parse skips the token
TryWhitespace ==
  /\ pc = "Whitespace"
  /\ LET val == extract("Whitespace", source, index)
     IN  IF ~val.matched
         THEN UNCHANGED <<index, yielded>>
         ELSE /\ index' = val.index
              /\ yielded' = Append(yielded, Yielded(val, index, <<>>, StringEntry(<<>>)))
  /\ pc' = nextToken("Whitespace")
  /\ UNCHANGED <<source, extractDescriptions, lastIndex, map, lastDescription, error,
                 doc, text, calls>>

\* lex: extract(TOKENS.Comment, state); parse, case 'Comment'
TryComment ==
  /\ pc = "Comment"
  /\ LET val == extract("Comment", source, index)
     IN  IF ~val.matched
         THEN /\ pc' = nextToken("Comment")
              /\ UNCHANGED <<index, yielded, lastDescription, error, calls>>
         ELSE /\ index' = val.index
              /\ yielded' = Append(yielded, Yielded(val, index, <<>>, StringEntry(<<>>)))
              /\ IF Len(val.value) < 2
                 \* entry.value[1] is undefined
                 THEN /\ pc' = "threw"
                      /\ error' = TypeError
                      /\ calls' = Append(calls, ParseCall(source, extractDescriptions, <<>>, TypeError))
                      /\ UNCHANGED lastDescription
                 ELSE /\ lastDescription' = commentCase(lastDescription, val)
                      /\ pc' = nextToken("Comment")
                      /\ UNCHANGED <<error, calls>>
  /\ UNCHANGED <<source, extractDescriptions, lastIndex, map, doc, text>>

\* lex: extract(TOKENS.keyedEntry, state); parse, case 'keyedEntry'
TryKeyedEntry ==
  /\ pc = "keyedEntry"
  /\ LET val == extract("keyedEntry", source, index)
     IN  IF ~val.matched
         THEN UNCHANGED <<index, yielded, map, lastDescription>>
         ELSE LET key == keyedEntryKey(val)
                  entry == keyedEntryEntry(val, extractDescriptions, lastDescription)
              IN  /\ index' = val.index
                  /\ yielded' = Append(yielded, Yielded(val, index, key, entry))
                  /\ map' = MapSet(map, key, entry)
                  /\ lastDescription' = keyedEntryReset(lastDescription)
  /\ pc' = nextToken("keyedEntry")
  /\ UNCHANGED <<source, extractDescriptions, lastIndex, error, doc, text, calls>>

\* lex: if (lastIndex === state.index) throw
LexCheck ==
  /\ pc = "check"
  /\ IF lastIndex = index
     THEN /\ pc' = "threw"
          /\ error' = SyntaxError(source, lastIndex, index)
          /\ calls' = Append(calls, ParseCall(source, extractDescriptions, <<>>, error'))
     ELSE /\ pc' = "while"
          /\ UNCHANGED <<error, calls>>
  /\ UNCHANGED <<source, extractDescriptions, index, lastIndex, map, lastDescription,
                 doc, text, yielded>>

\* the caller serializes the Document it holds: the one it started with, or the
\* one parse returned
Serialize ==
  /\ pc \in {"caller", "returned"}
  /\ Len(calls) < MaxCalls
  /\ doc' = IF pc = "caller" THEN doc ELSE map
  /\ text' = serialize(doc')
  /\ calls' = Append(calls, SerializeCall(doc', text'))
  /\ pc' = "serialized"
  /\ UNCHANGED <<source, extractDescriptions, index, lastIndex, map, lastDescription,
                 error, yielded>>

\* the caller parses the text serialize returned
Parse ==
  /\ pc = "serialized"
  /\ Len(calls) < MaxCalls
  /\ \E opt \in BOOLEAN : Start(text, opt)
  /\ UNCHANGED <<doc, text, calls>>

Next ==
  \/ LexWhile
  \/ TryWhitespace
  \/ TryComment
  \/ TryKeyedEntry
  \/ LexCheck
  \/ Serialize
  \/ Parse

Spec == Init /\ [][Next]_vars

----------------------------------------------------------------------------
(* Properties *)

\* the running or last parse call has ended
Returned == pc = "returned"
Threw == pc = "threw"

\* the yielded keyedEntry tokens
KeyedEntries == {i \in 1..Len(yielded) : yielded[i].token = "keyedEntry"}

\* the String element of a yielded keyedEntry, of which there is one when the
\* value has three elements
HasString(i) == Len(yielded[i].value) = 3
StringOf(i) == yielded[i].value[3]

\* C2 as stated: parse("A#B") raises the syntax error, and the error references
\* offset 1, the offset of the '#' after the key.
C2_ErrorAtOffendingChar ==
  (Threw /\ source = <<"A", "#", "B">>) => (error.kind = "Error" /\ error.offset = 1)

\* C2 amended: parse("A#B") raises the syntax error and the error references offset
\* 0, with the character "A": the offset and the character are those where the
\* iteration of the lexer began, and no rule consumed anything from there. When a Key
\* matches at that offset, the character after the key is not "=", and the reported
\* offset is the one where the key began, before the offset of that character.
C2_ErrorAtIterationStart ==
  (Threw /\ error.kind = "Error") =>
    /\ error.offset = lastIndex
    /\ error.offset = index
    /\ error.offset < Len(source)
    /\ error.char = source[error.offset + 1]
    /\ \A k \in 1..Len(MAIN_TOKENS) : ~extract(MAIN_TOKENS[k], source, error.offset).matched
    /\ LET key == extract("Key", source, error.offset)
       IN  key.matched => (charAt(source, key.index) # "=" /\ error.offset < key.index)
    /\ (source = <<"A", "#", "B">> => (error.offset = 0 /\ error.char = "A"))

\* C2's case: parse("A#B") has thrown the syntax error
C2_Witness ==
  Threw /\ source = <<"A", "#", "B">> /\ error.kind = "Error" /\ error.offset = 0

\* C3 as stated: a parse call that does not return a Document raises the lexer's
\* syntax error and nothing else, and a Comment token without CommentChars is taken
\* as the empty text, so it never ends the call.
C3_SingleFailureMode ==
  /\ Threw => error.kind = "Error"
  /\ \A i \in 1..Len(yielded) :
       (yielded[i].token = "Comment" /\ Len(yielded[i].value) < 2) => ~Threw

\* C9 as stated: every Quoted or SingleQuoted capture handed to parseString has
\* exactly three elements: the opening quote, the characters, the closing quote.
C9_QuotedCaptureHasThreeElements ==
  \A i \in KeyedEntries :
    (HasString(i) /\ StringOf(i).token \in {"QuotedString", "SingleQuotedString"})
      => Len(StringOf(i).value) = 3

\* C10 as stated: the offset never passes the end of the source, every iteration of
\* the lexer that ends without the syntax error has increased the offset, and the
\* call ends either with the offset at the end of the source or with the syntax error
\* at an offset where no top-level rule matches.
C10_ScanEnds ==
  /\ index <= Len(source)
  /\ (pc = "while" => (index = 0 \/ index > lastIndex))
  /\ (Returned \/ Threw) =>
       \/ Returned /\ index = Len(source)
       \/ /\ Threw
          /\ error.kind = "Error"
          /\ error.offset = index
          /\ \A k \in 1..Len(MAIN_TOKENS) : ~extract(MAIN_TOKENS[k], source, index).matched

\* what holds of C10 whatever the Assembler does: the offset stays within the source,
\* and an iteration that ends without the syntax error has increased it
LexProgress ==
  /\ index <= Len(source)
  /\ lastIndex <= index
  /\ (pc = "while" => (index = 0 \/ index > lastIndex))

\* a parse call ends: every step of a running call decreases a natural number, the
\* characters left at the start of the iteration counted with the steps left in it
Running == pc \in {"while", "check"} \cup {MAIN_TOKENS[k] : k \in 1..Len(MAIN_TOKENS)}
StepsLeft ==
  IF pc = "while" THEN Len(MAIN_TOKENS) + 2
  ELSE IF pc = "check" THEN 1
  ELSE IF Running
  THEN Len(MAIN_TOKENS) + 2 - (CHOOSE k \in 1..Len(MAIN_TOKENS) : MAIN_TOKENS[k] = pc)
  ELSE 0
Variant ==
  IF Running
  THEN (Len(MAIN_TOKENS) + 3) * (Len(source) - (IF pc = "while" THEN index ELSE lastIndex))
         + StepsLeft
  ELSE 0
ParseDecreasesVariant == [][Running => Variant' < Variant]_vars

\* the Comment tokens yielded after token i0 and before token i, folded as the
\* description buffer is: each comment's text (what follows the "#", trimmed) is
\* appended, after a newline when the buffer has content
CommentText(j) == trim(SubSeq(source, yielded[j].from + 2, yielded[j].to))
RECURSIVE Accumulated(_, _, _)
Accumulated(j, i, buffer) ==
  IF j >= i THEN buffer
  ELSE Accumulated(j + 1, i,
         IF yielded[j].token # "Comment" THEN buffer
         ELSE (IF buffer # <<>> THEN buffer \o <<NL>> ELSE buffer) \o CommentText(j))

\* the last keyedEntry yielded before token i, 0 when there is none
PreviousKeyedEntry(i) ==
  LET before == {j \in KeyedEntries : j < i}
  IN  IF before = {} THEN 0 ELSE CHOOSE j \in before : \A k \in before : k <= j

\* C6: in description-extraction mode the description written with a keyed entry is
\* the fold of the Comment tokens yielded since the previous keyed entry (or the
\* start), null when that fold is empty; Whitespace tokens in between change nothing,
\* and the buffer holds the fold of the comments since the last keyed entry, so it is
\* empty right after one.
C6_DescriptionFromCommentsSinceLastEntry ==
  /\ \A i \in KeyedEntries :
       LET buffer == Accumulated(PreviousKeyedEntry(i) + 1, i, <<>>)
       IN  IF extractDescriptions
           THEN /\ yielded[i].entry.isObject
                /\ yielded[i].entry.description =
                     IF buffer = <<>> THEN Null ELSE Description(buffer)
           ELSE ~yielded[i].entry.isObject
  /\ error.kind # "TypeError" =>
       lastDescription =
         Accumulated(PreviousKeyedEntry(Len(yielded) + 1) + 1, Len(yielded) + 1, <<>>)

\* C6's case: two comments with whitespace between them, then a keyed entry that
\* takes both as its description, then a keyed entry that takes none
C6_Witness ==
  /\ extractDescriptions
  /\ \E i \in KeyedEntries, j \in KeyedEntries :
       /\ i < j
       /\ yielded[i].entry.description = Description(<<"c", NL, "d">>)
       /\ yielded[j].entry.description = Null

\* the keys the yielded keyed entries assign, and the last entry assigned to a key
AssignedKeys == {yielded[i].key : i \in KeyedEntries}
Assignments(key) == {i \in KeyedEntries : yielded[i].key = key}
LastAssigned(key) ==
  yielded[CHOOSE i \in Assignments(key) : \A j \in Assignments(key) : j <= i].entry

\* C7 as stated: the mapping parse returns holds one entry for each assigned key and
\* no other, and the entry of a key is the one of its last assignment in source order.
C7_LastAssignmentWins ==
  Returned =>
    /\ Keys(map) = AssignedKeys
    /\ Cardinality(Keys(map)) = Len(map)
    /\ \A key \in AssignedKeys : Get(map, key) = LastAssigned(key)

\* what holds of every key but __proto__: one entry, that of the last assignment
LastAssignmentWinsButProto ==
  Returned =>
    /\ Keys(map) = AssignedKeys \ {ProtoKey}
    /\ Cardinality(Keys(map)) = Len(map)
    /\ \A key \in AssignedKeys \ {ProtoKey} : Get(map, key) = LastAssigned(key)

\* the characters of the source between the quotes of the String of keyed entry i
Inner(i) ==
  SubSeq(source, yielded[i].from + Len(yielded[i].key) + 3, yielded[i].to - 1)

\* the escape table, applied from left to right
EscapeTable ==
  { <<BSL, BSL>>, <<"n", NL>>, <<"t", TAB>>, <<"b", BS>>, <<"f", FF>>, <<"r", CR>>,
    <<DQ, DQ>> }
RECURSIVE Unescaped(_)
Unescaped(s) ==
  IF s = <<>> THEN <<>>
  ELSE IF s[1] = BSL /\ Len(s) >= 2 /\ \E p \in EscapeTable : p[1] = s[2]
  THEN <<(CHOOSE p \in EscapeTable : p[1] = s[2])[2]>> \o Unescaped(SubSeq(s, 3, Len(s)))
  ELSE <<s[1]>> \o Unescaped(Tail(s))

\* C8: the value of a double-quoted string is the characters between its quotes with
\* every pair of the escape table replaced by its character and every other character
\* kept; the value of a single-quoted string is the characters between its
\* apostrophes, unchanged; the value of "" is empty, and so is the value of a quote
\* after which the string took no character.
C8_DecodedByQuoteKind ==
  \A i \in KeyedEntries :
    HasString(i) =>
      /\ (StringOf(i).token = "QuotedString" /\ Len(StringOf(i).value) = 3)
           => yielded[i].entry.value = Unescaped(Inner(i))
      /\ (StringOf(i).token = "SingleQuotedString" /\ Len(StringOf(i).value) = 3)
           => yielded[i].entry.value = Inner(i)
      /\ StringOf(i).token = "EmptyString" => yielded[i].entry.value = <<>>
      \* a quote with nothing taken after it
      /\ (StringOf(i).token \in {"QuotedString", "SingleQuotedString"}
            /\ Len(StringOf(i).value) # 3)
           => /\ yielded[i].entry.value = <<>>
              /\ yielded[i].to = yielded[i].from + Len(yielded[i].key) + 2

\* C8's case: parse has returned a double-quoted value in which backslash-n was
\* decoded to a newline and another escape pair to its character
C8_Witness ==
  /\ Returned
  /\ \E i \in KeyedEntries :
       /\ HasString(i)
       /\ StringOf(i).token = "QuotedString"
       /\ Inner(i) = <<BSL, "n", BSL, BSL, "n">>
       /\ yielded[i].entry.value = <<NL, BSL, "n">>

\* the values of a Document have no control character
NoControlCharacters(obj) ==
  \A i \in 1..Len(obj) : \A j \in 1..Len(obj[i][2].value) : obj[i][2].value[j] \notin ControlChars

\* the same keys, each with the same entry
SameDocument(a, b) ==
  /\ Keys(a) = Keys(b)
  /\ Len(a) = Len(b)
  /\ \A key \in Keys(a) : Get(a, key) = Get(b, key)

\* the caller ran parse(source), serialize of what it returned, and parse again with
\* the default options
ParsedSerializedParsed ==
  /\ Len(calls) >= 3
  /\ calls[1].op = "parse" /\ ~calls[1].extractDescriptions /\ calls[1].error = NoError
  /\ calls[2].op = "serialize"
  /\ calls[3].op = "parse" /\ ~calls[3].extractDescriptions

\* C4: for a Document doc that parse returned with extractDescriptions false and
\* whose values have no control character, parse(serialize(doc)) returns, and returns
\* the same keys with the same values.
C4_ParseSerializeParse ==
  (ParsedSerializedParsed /\ NoControlCharacters(calls[1].doc))
    => (calls[3].error = NoError /\ SameDocument(calls[3].doc, calls[1].doc))

\* C4's case: a Document of two entries, one of them with a double quote and a
\* backslash in its value, went through serialize and parse
C4_Witness ==
  /\ ParsedSerializedParsed
  /\ NoControlCharacters(calls[1].doc)
  /\ Len(calls[1].doc) >= 2
  /\ \E i \in 1..Len(calls[1].doc) :
       includes(calls[1].doc[i][2].value, DQ) /\ includes(calls[1].doc[i][2].value, BSL)

\* the caller ran serialize on the Document it started with, then parse with the
\* default options
SerializedParsed ==
  /\ Len(calls) >= 2
  /\ calls[1].op = "serialize"
  /\ calls[2].op = "parse" /\ ~calls[2].extractDescriptions

\* C1 as stated: for a Document {K: V} of one plain string, parse(serialize({K: V}))
\* returns {K: V}.
C1_ValueRoundTrip ==
  (SerializedParsed /\ Len(calls[1].doc) = 1 /\ ~calls[1].doc[1][2].isObject)
    => (calls[2].error = NoError /\ calls[2].doc = calls[1].doc)

\* what holds of C1: the round trip of a value that JSON.stringify writes without a
\* \uXXXX escape, under a key other than __proto__
ValueRoundTripWithoutUnicodeEscape ==
  (/\ SerializedParsed /\ Len(calls[1].doc) = 1 /\ ~calls[1].doc[1][2].isObject
   /\ calls[1].doc[1][1] # ProtoKey
   /\ ~includes(calls[1].doc[1][2].value, SOH))
    => (calls[2].error = NoError /\ calls[2].doc = calls[1].doc)

\* what holds of C5: Documents without descriptions, without the key __proto__ and
\* without a character written as a \uXXXX escape
SerializeIdempotentWithoutDescriptions ==
  (/\ SerializedParsed
   /\ \A i \in 1..Len(calls[1].doc) :
        /\ calls[1].doc[i][1] # ProtoKey
        /\ ~includes(calls[1].doc[i][2].value, SOH)
        /\ (calls[1].doc[i][2].isObject =>
              (calls[1].doc[i][2].description.isNull \/ calls[1].doc[i][2].description.str = <<>>)))
    => /\ calls[2].error = NoError
       /\ (Len(calls) >= 3 /\ calls[3].op = "serialize") => calls[3].text = calls[1].text

\* C5 as stated: for a Document in which no value has both an apostrophe and a
\* newline, parse(serialize(doc)) returns and serialize of what it returns is
\* serialize(doc).
C5_SerializeIdempotent ==
  (/\ SerializedParsed
   /\ \A i \in 1..Len(calls[1].doc) :
        ~(includes(calls[1].doc[i][2].value, SQ) /\ includes(calls[1].doc[i][2].value, NL)))
    => /\ calls[2].error = NoError
       /\ (Len(calls) >= 3 /\ calls[3].op = "serialize") => calls[3].text = calls[1].text

====
